---- MODULE Spec2Model ----
(***************************************************************************)
(* Model of packages/apollo-language-server/src/config.ts: the resolution  *)
(* of an Apollo project configuration (loadConfig) and the ApolloConfig    *)
(* object it returns (tag, configDirURI, setDefaults).                     *)
(*                                                                         *)
(* JavaScript values are tagged records, so that values of different       *)
(* types can be compared.  A JavaScript string is the sequence of its      *)
(* characters, so that split, trim and includes are computed, not assumed. *)
(* An object is a function from its own keys to values; a key a function   *)
(* lacks reads as undefined.                                               *)
(***************************************************************************)
EXTENDS Integers, Sequences, FiniteSets, TLC

VARIABLES pc, call, cfg, err, log

vars == <<pc, call, cfg, err, log>>

(***************************************************************************)
(* JavaScript values                                                       *)
(***************************************************************************)
Undefined == [k |-> "undefined"]
Str(s) == [k |-> "string", v |-> s]
Bool(b) == [k |-> "boolean", v |-> b]
Num(n) == [k |-> "number", v |-> n]
Arr(a) == [k |-> "array", v |-> a]
Obj(o) == [k |-> "object", v |-> o]

\* the object literal {}
EmptyObject == Obj([key \in {} |-> Undefined])

IsString(x) == x.k = "string"
IsObject(x) == x.k = "object"

\* ToBoolean: what `if (x)`, `!!x`, `x || y` and `x && y` test
Truthy(x) ==
  CASE x.k = "undefined" -> FALSE
    [] x.k = "string" -> Len(x.v) > 0
    [] x.k = "boolean" -> x.v
    [] x.k = "number" -> x.v # 0
    [] x.k = "array" -> TRUE
    [] x.k = "object" -> TRUE

\* x || y
Or(x, y) == IF Truthy(x) THEN x ELSE y

\* o.key, for o an object (a property read of undefined throws; the code
\* guards every such read)
Get(o, key) == IF key \in DOMAIN o.v THEN o.v[key] ELSE Undefined

\* { ...a, ...b } for objects a and b; spreading undefined adds nothing
Spread(a, b) ==
  LET da == IF IsObject(a) THEN DOMAIN a.v ELSE {}
      db == IF IsObject(b) THEN DOMAIN b.v ELSE {}
  IN Obj([key \in da \cup db |-> IF key \in db THEN b.v[key] ELSE a.v[key]])

\* { ...o, key: x }
With(o, key, x) ==
  Obj([q \in DOMAIN o.v \cup {key} |-> IF q = key THEN x ELSE o.v[q]])

Max(S) == CHOOSE x \in S : \A y \in S : y <= x

(***************************************************************************)
(* String operations                                                       *)
(***************************************************************************)
\* String.prototype.split(sep), sep one character
RECURSIVE split(_, _)
split(s, sep) ==
  IF \A i \in 1..Len(s) : s[i] # sep THEN <<s>>
  ELSE LET i == CHOOSE j \in 1..Len(s) :
                  s[j] = sep /\ \A q \in 1..(j - 1) : s[q] # sep
       IN <<SubSeq(s, 1, i - 1)>> \o split(SubSeq(s, i + 1, Len(s)), sep)

\* the characters String.prototype.trim() removes (WhiteSpace and
\* LineTerminator): space, tab, line feed, carriage return, form feed,
\* vertical tab, U+00A0, U+1680 and U+FEFF.  The others (U+2000 to U+200A,
\* U+2028, U+2029, U+202F, U+205F, U+3000) cannot be written in a string of
\* a module, so no string of the model holds them.
WhiteSpace ==
  {" ", "\t", "\n", "\r", "\f", "", " ", " ", "﻿"}

\* String.prototype.trim()
RECURSIVE trim(_)
trim(s) ==
  IF Len(s) = 0 THEN s
  ELSE IF s[1] \in WhiteSpace THEN trim(Tail(s))
  ELSE IF s[Len(s)] \in WhiteSpace THEN trim(SubSeq(s, 1, Len(s) - 1))
  ELSE s

\* String.prototype.includes(sub)
includes(s, sub) ==
  \E i \in 1..(Len(s) - Len(sub) + 1) : SubSeq(s, i, i + Len(sub) - 1) = sub

RECURSIVE join(_, _)
join(parts, sep) ==
  IF Len(parts) = 0 THEN <<>>
  ELSE IF Len(parts) = 1 THEN parts[1]
  ELSE parts[1] \o sep \o join(Tail(parts), sep)

(***************************************************************************)
(* path (posix) and vscode-uri                                             *)
(***************************************************************************)
\* process.cwd()
\* "/w"
Cwd == <<"/","w">>

\* path.dirname
dirname(p) ==
  IF Len(p) = 0 THEN <<".">>
  ELSE LET hasRoot == p[1] = "/"
           ends == {i \in 2..Len(p) :
                      p[i] = "/" /\ \E j \in (i + 1)..Len(p) : p[j] # "/"}
       IN IF ends = {} THEN (IF hasRoot THEN <<"/">> ELSE <<".">>)
          ELSE IF hasRoot /\ Max(ends) = 2 THEN <<"/","/">>
          ELSE SubSeq(p, 1, Max(ends) - 1)

\* the segments of a path with "", "." dropped and ".." applied
RECURSIVE normalizeSegments(_, _)
normalizeSegments(segs, acc) ==
  IF Len(segs) = 0 THEN acc
  ELSE LET s == Head(segs)
       IN IF s = <<>> \/ s = <<".">> THEN normalizeSegments(Tail(segs), acc)
          ELSE IF s = <<".",".">>
            THEN normalizeSegments(Tail(segs),
                   IF Len(acc) = 0 THEN acc ELSE SubSeq(acc, 1, Len(acc) - 1))
          ELSE normalizeSegments(Tail(segs), Append(acc, s))

\* path.resolve(p): p made absolute against process.cwd() and normalized
resolve(p) ==
  LET abs == IF Len(p) > 0 /\ p[1] = "/" THEN p ELSE Cwd \o <<"/">> \o p
  IN <<"/">> \o join(normalizeSegments(split(abs, "/"), <<>>), <<"/">>)

\* path.resolve(dir, file)
resolve2(dir, file) ==
  IF Len(file) > 0 /\ file[1] = "/" THEN resolve(file)
  ELSE resolve(dir \o <<"/">> \o file)

\* a URI is modelled by its file-system path
URI_file(p) == [fsPath |-> p]
URI_parse(p) == [fsPath |-> p]

(***************************************************************************)
(* lodash/fp merge(object, source): a new object, source merged into a     *)
(* copy of object.  Plain objects and arrays are merged recursively (an    *)
(* array index by index), any other source value replaces the object's,    *)
(* and an undefined source value leaves the object's value alone.          *)
(***************************************************************************)
RECURSIVE mergeValue(_, _)
RECURSIVE mergeObject(_, _)
RECURSIVE mergeArray(_, _)

\* the value at one key (or index) the source has: baseMergeDeep and
\* assignMergeValue
mergeValue(objValue, srcValue) ==
  CASE srcValue.k = "array" ->
         mergeArray(IF objValue.k = "array" THEN objValue ELSE Arr(<<>>),
                    srcValue)
    [] srcValue.k = "object" /\ objValue.k # "array" ->
         mergeObject(IF objValue.k = "object" THEN objValue ELSE EmptyObject,
                     srcValue)
    [] srcValue.k = "undefined" -> objValue
    [] srcValue.k \in {"string", "boolean", "number"} -> srcValue

mergeObject(object, source) ==
  Obj([key \in DOMAIN object.v \cup DOMAIN source.v |->
         IF key \notin DOMAIN source.v THEN object.v[key]
         ELSE mergeValue(Get(object, key), source.v[key])])

mergeArray(object, source) ==
  LET n == IF Len(object.v) > Len(source.v) THEN Len(object.v)
           ELSE Len(source.v)
  IN Arr([i \in 1..n |->
            IF i > Len(source.v) THEN object.v[i]
            ELSE mergeValue(IF i <= Len(object.v) THEN object.v[i]
                            ELSE Undefined, source.v[i])])

merge(object, source) == mergeObject(object, source)

(***************************************************************************)
(* Literals of config.ts                                                   *)
(***************************************************************************)
\* "apollo"
MODULE_NAME == <<"a","p","o","l","l","o">>
\* "package.json"
S_packageJson == <<"p","a","c","k","a","g","e",".","j","s","o","n">>
\* ".config.js"
S_configJs == <<".","c","o","n","f","i","g",".","j","s">>
\* ".config.ts"
S_configTs == <<".","c","o","n","f","i","g",".","t","s">>
\* ".js"
S_dotJs == <<".","j","s">>
\* "service"
S_service == <<"s","e","r","v","i","c","e">>
\* "current"
S_current == <<"c","u","r","r","e","n","t">>
\* "https://engine-graphql.apollographql.com/api/graphql"
S_engineEndpoint == <<"h","t","t","p","s",":","/","/","e","n","g","i","n","e","-","g","r","a","p","h","q","l",".","a","p","o","l","l","o","g","r","a","p","h","q","l",".","c","o","m","/","a","p","i","/","g","r","a","p","h","q","l">>
\* "https://engine.apollographql.com"
S_engineFrontend == <<"h","t","t","p","s",":","/","/","e","n","g","i","n","e",".","a","p","o","l","l","o","g","r","a","p","h","q","l",".","c","o","m">>
\* "src/**/*.{ts,tsx,js,jsx,graphql}"
S_includes == <<"s","r","c","/","*","*","/","*",".","{","t","s",",","t","s","x",",","j","s",",","j","s","x",",","g","r","a","p","h","q","l","}">>
\* "**/node_modules"
S_nodeModules == <<"*","*","/","n","o","d","e","_","m","o","d","u","l","e","s">>
\* "**/__tests__"
S_tests == <<"*","*","/","_","_","t","e","s","t","s","_","_">>
\* "gql"
S_gql == <<"g","q","l">>
\* "connection"
S_connection == <<"c","o","n","n","e","c","t","i","o","n">>
\* "type"
S_type == <<"t","y","p","e">>
\* "client"
S_client == <<"c","l","i","e","n","t">>
\* "rest"
S_rest == <<"r","e","s","t">>
\* "http://localhost:4000/graphql"
S_localhost == <<"h","t","t","p",":","/","/","l","o","c","a","l","h","o","s","t",":","4","0","0","0","/","g","r","a","p","h","q","l">>


\* the object keys and type names, as TLA+ strings and as JavaScript strings
\* "client"
T_client == Str(S_client)
\* "service"
T_service == Str(S_service)

\* lines 21-24 (-0 is the number 0 under lodash's SameValueZero)
DefaultEngineStatsWindow == Obj([to |-> Num(0), from |-> Num(-86400)])

\* lines 47-50
DefaultEngineConfig ==
  Obj([endpoint |-> Str(S_engineEndpoint), frontend |-> Str(S_engineFrontend)])

\* lines 52-55
DefaultConfigBase ==
  Obj([includes |-> Arr(<<Str(S_includes)>>),
       excludes |-> Arr(<<Str(S_nodeModules), Str(S_tests)>>)])

\* lines 81-88
DefaultClientConfig ==
  Spread(DefaultConfigBase,
         Obj([tagName |-> Str(S_gql),
              clientOnlyDirectives |-> Arr(<<Str(S_connection), Str(S_type)>>),
              clientSchemaDirectives |-> Arr(<<Str(S_client), Str(S_rest)>>),
              addTypename |-> Bool(TRUE),
              statsWindow |-> DefaultEngineStatsWindow]))

\* lines 96-101
DefaultServiceConfig ==
  Spread(DefaultConfigBase,
         Obj([endpoint |-> Obj([url |-> Str(S_localhost)])]))

\* lines 115-119
defaultSearchPlaces ==
  <<S_packageJson, MODULE_NAME \o S_configJs, MODULE_NAME \o S_configTs>>

\* lines 122-125
getSearchPlaces(configFile) ==
  (IF Truthy(configFile) THEN <<configFile.v>> ELSE <<>>) \o defaultSearchPlaces

(***************************************************************************)
(* Pure parsers                                                            *)
(***************************************************************************)
\* lines 168-174: [id, tag] of a specifier "id@tag"; tag is undefined when
\* the specifier has no "@"
parseServiceSpecificer(specifier) ==
  LET parts == split(specifier.v, "@")
  IN <<Str(trim(parts[1])),
       IF Len(parts) >= 2 THEN Str(trim(parts[2])) ELSE Undefined>>

\* lines 176-189
getServiceName(config) ==
  LET service == Get(config, "service")
      client == Get(config, "client")
  IN IF Truthy(service) THEN Get(service, "name")
     ELSE IF Truthy(client)
       THEN IF IsString(Get(client, "service"))
              THEN parseServiceSpecificer(Get(client, "service"))[1]
            ELSE IF Truthy(Get(client, "service"))
              THEN Get(Get(client, "service"), "name")
            ELSE Get(client, "service")
     ELSE Undefined

\* lines 266-272
getServiceFromKey(key) ==
  IF Truthy(key)
    THEN LET parts == split(key.v, ":")
         IN IF parts[1] = S_service
              THEN (IF Len(parts) >= 2 THEN Str(parts[2]) ELSE Undefined)
            ELSE Undefined
  ELSE Undefined

(***************************************************************************)
(* class ApolloConfig                                                      *)
(***************************************************************************)
\* lines 200-207: the constructor; _tag starts unset
ApolloConfig(rawConfig, configURI) ==
  [rawConfig |-> rawConfig,
   configURI |-> configURI,
   isService |-> Truthy(Get(rawConfig, "service")),
   isClient |-> Truthy(Get(rawConfig, "client")),
   engine |-> Get(rawConfig, "engine"),
   name |-> getServiceName(rawConfig),
   client |-> Get(rawConfig, "client"),
   service |-> Get(rawConfig, "service"),
   _tag |-> Undefined]

\* lines 209-213
configDirURI(this) ==
  IF this.configURI # Undefined /\ includes(this.configURI.fsPath, S_dotJs)
    THEN URI_parse(dirname(this.configURI.fsPath))
  ELSE this.configURI

\* lines 219-221
set_tag(this, tag) == [this EXCEPT !._tag = tag]

\* get_tag with the computed tag kept in _tag
get_tag_cached(this) ==
  LET value ==
        IF Truthy(this._tag) THEN this._tag
        ELSE IF Truthy(this.client) /\ IsString(Get(this.client, "service"))
          THEN LET specifierTag ==
                     parseServiceSpecificer(Get(this.client, "service"))[2]
               IN IF Truthy(specifierTag) THEN specifierTag ELSE Str(S_current)
        ELSE Str(S_current)
  IN [self |-> [this EXCEPT !._tag = value], value |-> value]

\* lines 223-232: the getter; it returns a value and leaves the object as
\* it is (self is the object after the call)
get_tag(this) ==
  [self |-> this,
   value |->
     IF Truthy(this._tag) THEN this._tag
     ELSE IF Truthy(this.client) /\ IsString(Get(this.client, "service"))
       THEN LET specifierTag ==
                  parseServiceSpecificer(Get(this.client, "service"))[2]
            IN IF Truthy(specifierTag) THEN specifierTag ELSE Str(S_current)
     ELSE Str(S_current)]

\* the value a read of config.tag gives
tagOf(this) == get_tag(this).value

\* setDefaults with the constructor run again on the merged document
setDefaults_reconstructed(this, partial) ==
  LET config == merge(this.rawConfig,
                      Obj([client |-> Get(partial, "client"),
                           engine |-> Get(partial, "engine"),
                           service |-> Get(partial, "service")]))
  IN [ApolloConfig(config, this.configURI) EXCEPT !._tag = this._tag]

\* lines 235-241
setDefaults(this, partial) ==
  LET client == Get(partial, "client")
      engine == Get(partial, "engine")
      service == Get(partial, "service")
      config == merge(this.rawConfig,
                      Obj([client |-> client, engine |-> engine,
                           service |-> service]))
  IN [this EXCEPT !.rawConfig = config,
                  !.client = Get(config, "client"),
                  !.service = Get(config, "service"),
                  !.engine = IF Truthy(engine) THEN Get(config, "engine")
                             ELSE this.engine]

(***************************************************************************)
(* loadConfig                                                              *)
(***************************************************************************)
\* explorer.search found nothing
Null == [k |-> "null"]

\* what explorer.search returns for a file it found (ConfigResult, lines
\* 147-151)
ConfigResult(config, filepath, isEmpty) ==
  [k |-> "result", config |-> config, filepath |-> filepath,
   isEmpty |-> isEmpty]

Threw(error, path) == [threw |-> TRUE, error |-> error, path |-> path]
Returned(value) == [threw |-> FALSE, value |-> value]

\* lines 345-371: the document built from the resolved type and name
synthesize(loadedConfig, resolvedType, resolvedName, configPath) ==
  LET loaded == loadedConfig # Null
      base == IF loaded THEN loadedConfig.config ELSE EmptyObject
      block == IF resolvedType = T_client THEN "client" ELSE "service"
      slot == IF resolvedType = T_client THEN "service" ELSE "name"
      loadedBlock == IF loaded THEN Get(loadedConfig.config, block)
                     ELSE EmptyObject
  IN ConfigResult(
       With(base, block,
            With(Spread(DefaultConfigBase, loadedBlock), slot, resolvedName)),
       Or(configPath, Str(Cwd)).v,
       FALSE)

\* lines 381-386: defaults under the document, the engine key of the .env
\* file under the document, the engine defaults under the result
applyDefaults(config, engineConfig) ==
  LET c1 == IF Truthy(Get(config, "client"))
              THEN merge(Obj([client |-> DefaultClientConfig]), config)
            ELSE config
      c2 == IF Truthy(Get(c1, "service"))
              THEN merge(Obj([service |-> DefaultServiceConfig]), c1)
            ELSE c1
      c3 == IF Truthy(engineConfig) THEN merge(engineConfig, c2) ELSE c2
  IN merge(Obj([engine |-> DefaultEngineConfig]), c3)

\* lines 275-389.  settings is LoadConfigSettings; found is what
\* explorer.search returned; env is the parsed .env file, Null when the file
\* does not exist.  A result whose config is undefined (cosmiconfig's report
\* of an empty file) makes the read of config.client at line 326 or 331
\* throw a TypeError.
loadConfig(settings, found, env) ==
  LET configPath == settings.configPath
      name == settings.name
      type == settings.type
      hasKey == env # Null /\ Truthy(Get(env, "ENGINE_API_KEY"))
      engineConfig ==
        IF hasKey
          THEN Obj([engine |-> Obj([apiKey |-> Get(env, "ENGINE_API_KEY")])])
        ELSE EmptyObject
      nameFromKey ==
        IF hasKey THEN getServiceFromKey(Get(env, "ENGINE_API_KEY"))
        ELSE Undefined
      nameOrKey == Or(name, nameFromKey)
      loaded == found # Null
      client == IF loaded THEN Get(found.config, "client") ELSE Undefined
      service == IF loaded THEN Get(found.config, "service") ELSE Undefined
      stringService == Truthy(client) /\ IsString(Get(client, "service"))
      resolvedType ==
        IF Truthy(type) THEN type
        ELSE IF Truthy(client) THEN T_client
        ELSE T_service
      resolvedName ==
        IF Truthy(type) \/ Truthy(client)
          THEN (IF stringService THEN Get(client, "service") ELSE nameOrKey)
        ELSE nameOrKey
      loadedConfig ==
        IF ~loaded \/ Truthy(resolvedName)
          THEN synthesize(found, resolvedType, resolvedName, configPath)
        ELSE found
  IN IF settings.requireConfig /\ ~loaded
       THEN Threw("NotFound", Undefined)
     ELSE IF loaded /\ found.config = Undefined
       THEN Threw("TypeError", Undefined)
     ELSE IF ~Truthy(type) /\ ~Truthy(client) /\ ~Truthy(service)
       THEN Threw("UnresolvableType", Undefined)
     ELSE IF loadedConfig.isEmpty
       THEN Threw("EmptyDocument", Str(loadedConfig.filepath))
     ELSE Returned(ApolloConfig(applyDefaults(loadedConfig.config, engineConfig),
                                URI_file(resolve(loadedConfig.filepath))))

(***************************************************************************)
(* Inputs: the settings a caller passes, the files the search can find,    *)
(* the .env files that can exist                                           *)
(***************************************************************************)
\* "pay@beta"
S_payBeta == <<"p","a","y","@","b","e","t","a">>
\* "pay"
S_pay == <<"p","a","y">>
\* "\tpay "
S_payPadded == <<"\t","p","a","y"," ">>
\* "beta"
S_beta == <<"b","e","t","a">>
\* "inv"
S_inv == <<"i","n","v">>
\* "svc"
S_svc == <<"s","v","c">>
\* "foo"
S_foo == <<"f","o","o">>
\* "cart"
S_cart == <<"c","a","r","t">>
\* "service:cart"
S_serviceCart == <<"s","e","r","v","i","c","e",":","c","a","r","t">>
\* "user:cart"
S_userCart == <<"u","s","e","r",":","c","a","r","t">>
\* "/x.js"
S_dirXJs == <<"/","x",".","j","s">>
\* "c.ts"
S_cTs == <<"c",".","t","s">>
\* "lib"
S_lib == <<"l","i","b">>
\* "inv @\tprod\n"
S_invProd == <<"i","n","v"," ","@","\t","p","r","o","d","\n">>
\* "prod"
S_prod == <<"p","r","o","d">>
\* "other"
S_other == <<"o","t","h","e","r">>

Types == {Undefined, T_client, T_service}
Names == {Undefined, Str(S_foo)}
ConfigPaths == {Undefined, Str(S_dirXJs)}
ConfigFileNames == {Undefined, Str(S_cTs)}

Settings ==
  [configPath : ConfigPaths, configFileName : ConfigFileNames,
   requireConfig : BOOLEAN, name : Names, type : Types]

\* the parsed .env file: none, a service key, a user key
Envs ==
  {Null,
   Obj([ENGINE_API_KEY |-> Str(S_serviceCart)]),
   Obj([ENGINE_API_KEY |-> Str(S_userCart)])}

\* client blocks a config file can hold (Undefined: no client block)
ClientBlocks ==
  {Undefined,
   EmptyObject,
   Obj([service |-> Str(S_pay)]),
   Obj([service |-> Str(S_payPadded)]),
   Obj([service |-> Str(S_payBeta), excludes |-> Arr(<<Str(S_lib)>>)]),
   Obj([service |-> Obj([name |-> Str(S_inv), url |-> Str(<<"u">>)]),
        includes |-> Arr(<<Str(<<"a">>), Str(<<"b">>)>>),
        clientOnlyDirectives |-> Arr(<<Str(<<"a">>)>>)])}

\* service blocks a config file can hold
ServiceBlocks ==
  {Undefined,
   EmptyObject,
   Obj([name |-> Str(S_svc), endpoint |-> Obj([url |-> Str(<<"u">>)]),
        excludes |-> Arr(<<Str(S_lib)>>)])}

\* engine blocks a config file can hold
EngineBlocks ==
  {Undefined,
   Obj([endpoint |-> Str(<<"e">>)]),
   Obj([apiKey |-> Str(<<"k">>), endpoint |-> Str(<<"e">>)])}

\* a document with the blocks it holds
Document(client, service, engine) ==
  LET blocks == [client |-> client, service |-> service, engine |-> engine]
  IN Obj([key \in {q \in DOMAIN blocks : blocks[q] # Undefined} |->
            blocks[key]])

Documents ==
  {Document(c, s, e) : c \in ClientBlocks, s \in ServiceBlocks,
                       e \in EngineBlocks}

\* explorer.search(configPath): nothing, or the first search place that
\* holds a document, in the directory the search starts from.  The explorer
\* of lines 282-285 keeps the default options, under which an empty file is
\* skipped: no result has isEmpty set.  A document that holds nothing
\* ("apollo": {} in package.json) is a result like any other.
SearchResults(settings) ==
  LET places == getSearchPlaces(settings.configFileName)
      dir == Or(settings.configPath, Str(Cwd)).v
  IN {Null} \cup
     {ConfigResult(d, resolve2(dir, places[i]), FALSE) :
        d \in Documents, i \in DOMAIN places}

(***************************************************************************)
(* The specification of one loadConfig call.  loadConfig is async: it      *)
(* takes its settings, starts the search and returns to the event loop     *)
(* (line 287); when the search settles it reads the .env file and does     *)
(* the rest.  The module keeps no state of its own between calls.          *)
(***************************************************************************)
Init ==
  /\ pc = "idle"
  /\ call = Undefined
  /\ cfg = Undefined
  /\ err = Undefined
  /\ log = <<>>

\* lines 275-287: loadConfig(settings) up to await explorer.search
LoadConfigCalled ==
  /\ pc = "idle"
  /\ \E settings \in Settings :
       call' = [settings |-> settings]
  /\ pc' = "searching"
  /\ UNCHANGED <<cfg, err, log>>

\* lines 287-389: the search settles, the .env file is read as it is then,
\* and loadConfig returns an ApolloConfig or throws
LoadConfigResumed ==
  /\ pc = "searching"
  /\ \E env \in Envs, found \in SearchResults(call.settings) :
       LET r == loadConfig(call.settings, found, env)
       IN /\ call' = [settings |-> call.settings, found |-> found,
                      env |-> env]
          /\ pc' = IF r.threw THEN "threw" ELSE "returned"
          /\ cfg' = IF r.threw THEN Undefined ELSE r.value
          /\ err' = IF r.threw THEN r ELSE Undefined
  /\ UNCHANGED log

Next == LoadConfigCalled \/ LoadConfigResumed

Spec == Init /\ [][Next]_vars

(***************************************************************************)
(* The specification of an ApolloConfig in use: tag reads, tag             *)
(* assignments and setDefaults calls on a configuration loadConfig         *)
(* returned                                                                *)
(***************************************************************************)
MaxOps == 3

NoSettings ==
  [configPath |-> Undefined, configFileName |-> Undefined,
   requireConfig |-> FALSE, name |-> Undefined, type |-> Undefined]

ModelDocuments ==
  {Document(Obj([service |-> Str(S_payBeta)]), Undefined, Undefined),
   Document(Obj([service |-> Obj([name |-> Str(S_inv)])]), Undefined,
            Undefined),
   Document(EmptyObject, Undefined, Obj([apiKey |-> Str(<<"k">>)])),
   Document(Undefined, Obj([name |-> Str(S_svc)]), Undefined)}

ModelCalls ==
  {[settings |-> NoSettings,
    found |-> ConfigResult(d, resolve2(Cwd, defaultSearchPlaces[2]), FALSE),
    env |-> Null] : d \in ModelDocuments}
  \cup {[settings |-> [NoSettings EXCEPT !.type = T_service],
         found |-> Null, env |-> Null]}

\* the tags a caller assigns
Tags == {Str(<<"t">>), Str(<<>>)}

\* the partial documents a caller passes to setDefaults
Partials ==
  {EmptyObject,
   Obj([engine |-> Obj([endpoint |-> Str(<<"e","2">>)])]),
   Obj([client |-> Obj([service |-> Str(S_invProd)])]),
   Obj([service |-> Obj([name |-> Str(S_other)])]),
   Obj([client |-> Obj([tagName |-> Str(<<"g">>),
                        referenceID |-> Str(<<"r">>)]),
        engine |-> Obj([apiKey |-> Str(<<"k","2">>)])])}

InitModel ==
  /\ pc = "returned"
  /\ call \in ModelCalls
  /\ cfg = loadConfig(call.settings, call.found, call.env).value
  /\ err = Undefined
  /\ log = <<>>

\* const t = config.tag
ReadTag ==
  /\ Len(log) < MaxOps
  /\ LET r == get_tag(cfg)
     IN /\ cfg' = r.self
        /\ log' = Append(log, [op |-> "get", arg |-> r.value])
  /\ UNCHANGED <<pc, call, err>>

\* config.tag = t
AssignTag ==
  /\ Len(log) < MaxOps
  /\ \E t \in Tags :
       /\ cfg' = set_tag(cfg, t)
       /\ log' = Append(log, [op |-> "set", arg |-> t])
  /\ UNCHANGED <<pc, call, err>>

\* config.setDefaults(partial)
SetDefaults ==
  /\ Len(log) < MaxOps
  /\ \E partial \in Partials :
       /\ cfg' = setDefaults(cfg, partial)
       /\ log' = Append(log, [op |-> "defaults", arg |-> partial])
  /\ UNCHANGED <<pc, call, err>>

NextModel == ReadTag \/ AssignTag \/ SetDefaults

SpecModel == InitModel /\ [][NextModel]_vars

(***************************************************************************)
(* What the claims speak of                                                *)
(***************************************************************************)
\* the document the search located, its blocks, and the key of the .env file
loadedDocument == call.found.config
loadedClient == Get(loadedDocument, "client")
loadedService == Get(loadedDocument, "service")
secretKey == IF call.env = Null THEN Undefined
             ELSE Get(call.env, "ENGINE_API_KEY")

\* the loaded document has a client whose service is a string
loadedStringSpecifier ==
  /\ call.found # Null
  /\ Truthy(loadedClient)
  /\ IsString(Get(loadedClient, "service"))

\* value keeps everything document defines: every key of an object, at
\* every depth, and an array as a whole
RECURSIVE Retains(_, _)
Retains(document, value) ==
  CASE document.k = "undefined" -> TRUE
    [] document.k = "object" ->
         /\ value.k = "object"
         /\ \A key \in DOMAIN document.v :
              Retains(document.v[key], Get(value, key))
    [] OTHER -> value = document

\* s ends with suffix
EndsWith(s, suffix) ==
  /\ Len(s) >= Len(suffix)
  /\ SubSeq(s, Len(s) - Len(suffix) + 1, Len(s)) = suffix

\* the last operation of the log is op
LastOp(op) == Len(log) > 0 /\ log[Len(log)].op = op

\* C1: a located document that holds neither a client nor a service block
\* makes loadConfig fail with the empty-document error naming the located
\* path, whatever the type, the name and the secret are.
C1_EmptyDocumentIsAnError ==
  (/\ pc \in {"returned", "threw"}
   /\ call.found # Null
   /\ ~Truthy(loadedClient)
   /\ ~Truthy(loadedService))
  => (/\ pc = "threw"
      /\ err.error = "EmptyDocument"
      /\ err.path = Str(call.found.filepath))

\* C2: when the caller supplies a type and loadConfig returns, the
\* configuration is a project of that type.
C2_ExplicitTypeHonoured ==
  (pc = "returned" /\ Truthy(call.settings.type))
  => IF call.settings.type = T_client THEN cfg.isClient ELSE cfg.isService

\* C3: the resolved name follows the precedence: specifier name under an
\* explicit type, else the caller's name, else the secret's name, else the
\* name the loaded file carries.
C3_NamePrecedence ==
  pc = "returned"
  => cfg.name =
       IF Truthy(call.settings.type) /\ loadedStringSpecifier
         THEN Str(trim(split(Get(loadedClient, "service").v, "@")[1]))
       ELSE IF Truthy(call.settings.name) THEN call.settings.name
       ELSE IF Truthy(getServiceFromKey(secretKey))
         THEN getServiceFromKey(secretKey)
       ELSE IF call.found # Null THEN getServiceName(loadedDocument)
       ELSE Undefined

\* C4: a loaded client.service "id@tag" gives name id and tag tag, and type
\* client when no type was supplied.
C4_SpecifierNameAndTag ==
  (/\ pc = "returned"
   /\ loadedStringSpecifier
   /\ Get(loadedClient, "service") = Str(S_pay \o <<"@">> \o S_beta))
  => (/\ cfg.name = Str(S_pay)
      /\ tagOf(cfg) = Str(S_beta)
      /\ (~Truthy(call.settings.type) => cfg.isClient))

\* C5: default-merging keeps every key the loaded document defines in its
\* client, service and engine blocks (the key the resolved name is injected
\* at apart), and a document's array replaces the default array.
C5_DocumentWinsWithArraysReplaced ==
  (pc = "returned" /\ call.found # Null)
  => \A block \in {"client", "service", "engine"} :
       LET document == Get(loadedDocument, block)
           slot == IF block = "client" THEN "service" ELSE "name"
       IN IsObject(document)
          => \A key \in DOMAIN document.v \ {slot} :
               Retains(document.v[key], Get(Get(cfg.rawConfig, block), key))

\* C6: the ENGINE_API_KEY of the .env file is the resolved engine.apiKey,
\* over any engine block of the document; endpoint and frontend come from
\* the defaults only where the document's engine block lacks them.
C6_SecretApiKeyWins ==
  (pc = "returned" /\ Truthy(secretKey))
  => LET documentEngine == Get(loadedDocument, "engine")
         fromDocument(key) ==
           IF call.found # Null /\ IsObject(documentEngine)
             THEN Get(documentEngine, key) ELSE Undefined
     IN /\ Get(cfg.engine, "apiKey") = secretKey
        /\ Get(Get(cfg.rawConfig, "engine"), "apiKey") = secretKey
        /\ \A key \in {"endpoint", "frontend"} :
             Get(cfg.engine, key) =
               Or(fromDocument(key), Get(DefaultEngineConfig, key))

\* C7 as claimed: while no tag has been assigned, every read returns what
\* the first read returned (the first read caches), also across setDefaults
\* calls; and after a tag was assigned, every read returns the tag last
\* assigned.
C7_TagCachedAfterFirstRead ==
  \A j \in DOMAIN log :
    log[j].op = "get"
    => LET sets == {i \in 1..j : log[i].op = "set"}
           gets == {i \in 1..j : log[i].op = "get"}
       IN IF sets = {} THEN \A i \in gets : log[j].arg = log[i].arg
          ELSE Truthy(log[Max(sets)].arg) => log[j].arg = log[Max(sets)].arg

\* the tag a read is to return: the value last assigned when it is a
\* non-empty string, else the part after the "@" of the client's string
\* service as it is now, else "current"
ExpectedTag ==
  LET sets == {i \in DOMAIN log : log[i].op = "set"}
      assigned == IF sets = {} THEN Undefined ELSE log[Max(sets)].arg
      service == IF IsObject(cfg.client) THEN Get(cfg.client, "service")
                 ELSE Undefined
      parts == IF IsString(service) THEN split(service.v, "@") ELSE <<>>
  IN IF assigned # Undefined /\ assigned.v # <<>> THEN assigned
     ELSE IF Len(parts) >= 2 /\ trim(parts[2]) # <<>>
       THEN Str(trim(parts[2]))
     ELSE Str(S_current)

\* C7 as amended: a read caches nothing; it returns the tag last assigned
\* when that is a non-empty string, and otherwise the tag of the client's
\* string service specifier as it is at the time of the read, else
\* "current".
C7_TagReadIsRecomputed ==
  LastOp("get") => log[Len(log)].arg = ExpectedTag

\* C7's case: two reads with no assignment, around a setDefaults that
\* changed client.service, return different tags
C7_Witness ==
  /\ Len(log) = 3
  /\ log[1].op = "get"
  /\ log[2].op = "defaults"
  /\ log[3].op = "get"
  /\ log[1].arg = Str(S_beta)
  /\ log[3].arg = Str(S_prod)

\* C8: setDefaults is document-wins: every key the existing document
\* defines, at any depth, keeps its value over the call.
C8_SetDefaultsDocumentWins ==
  [][(log' # log /\ log'[Len(log')].op = "defaults")
     => Retains(cfg.rawConfig, cfg'.rawConfig)]_vars

\* C9: configDirURI is the parent directory exactly for a located .js or
\* .ts config module, and the location itself for a .json document and
\* for the directory of a synthesized configuration.
C9_ConfigDirOfExecutableModule ==
  pc = "returned"
  => LET location == cfg.configURI.fsPath
         located == call.found # Null
                    /\ location = resolve(call.found.filepath)
         executable == located /\ (\/ EndsWith(location, <<".","j","s">>)
                                   \/ EndsWith(location, <<".","t","s">>))
     IN configDirURI(cfg).fsPath =
          IF executable THEN dirname(location) ELSE location

\* C10: setDefaults leaves isClient, isService, name and the assigned tag
\* as they were, for every partial, and leaves the engine view and
\* rawConfig.engine as they were when the partial has no engine fragment.
C10_SetDefaultsFrame ==
  [][(log' # log /\ log'[Len(log')].op = "defaults")
     => (/\ cfg'.isClient = cfg.isClient
         /\ cfg'.isService = cfg.isService
         /\ cfg'.name = cfg.name
         /\ cfg'._tag = cfg._tag
         /\ (Truthy(cfg._tag) => tagOf(cfg') = tagOf(cfg))
         /\ (Get(log'[Len(log')].arg, "engine") = Undefined
             => (/\ cfg'.engine = cfg.engine
                 /\ Get(cfg'.rawConfig, "engine")
                      = Get(cfg.rawConfig, "engine"))))]_vars

\* C10's case: after a tag was assigned, setDefaults added a service block
\* with another name to a client configuration
C10_Witness ==
  /\ Len(log) >= 2
  /\ log[Len(log) - 1].op = "set"
  /\ Truthy(log[Len(log) - 1].arg)
  /\ LastOp("defaults")
  /\ Get(log[Len(log)].arg, "service") = Obj([name |-> Str(S_other)])
  /\ cfg.isClient
  /\ ~cfg.isService
  /\ Truthy(cfg.service)
  /\ cfg.name # Str(S_other)

====
